---- MODULE Spec2Model ----
(***************************************************************************)
(* Videohub: the media ingestion pipeline (uploadVideo,                    *)
(* processVideoInBackground, processVideo, the reprocess-videos script),   *)
(* the moderation override, the streaming gate (streamVideo), the         *)
(* real-time channel of server.js and the SocketService of the browser.    *)
(*                                                                         *)
(* The model follows ONE video document from upload to its terminal state. *)
(* Every store operation of the pipeline addresses the document by its id  *)
(* (Video.findById / findByIdAndUpdate), so documents do not interact.     *)
(* A step of an async function is the code between two awaits: the awaited *)
(* operation takes effect and the continuation runs up to the next await.  *)
(***************************************************************************)
EXTENDS Integers, Sequences, FiniteSets, TLC

VARIABLES
    video,        \* the Video document in the store (created = FALSE before Video.create)
    fileOnDisk,   \* the uploaded file exists at video.filepath
    up_pc,        \* position of the uploadVideo handler
    uploadRes,    \* the answer of the upload route (code 0: none yet)
    pc,           \* position of processVideoInBackground
    loaded,       \* processVideoInBackground: its local `video` is non-null
    sens,         \* processVideoInBackground: local sensitivityStatus
    result,       \* processVideoInBackground: local result of processVideo
    err,          \* the error caught by the catch block (error.message)
    events,       \* videoStatusUpdate events emitted through global.io, in order
    sc_pc,        \* position of the reprocess-videos script
    snap,         \* reprocess-videos: the loaded document (the paths the loop assigns)
    sc_runs,      \* number of runs of the script so far
    resp,         \* the last streamVideo request and its response
    overridden,   \* toggleSensitivityStatus has stored a verdict for the document
    conns,        \* server.js: the socket connections (socket.userId, socket.rooms)
    an,           \* a call of analyzeSensitivity: its arguments and its result
    socket,       \* SocketService: this.socket (0: null, else the socket created)
    isConnected,  \* SocketService: this.isConnected
    listeners,    \* SocketService: this.listeners.get('videoStatusUpdate')
    pendingSubscriptions,  \* SocketService: this.pendingSubscriptions
    sockets,      \* the sockets created by io(): transport state and handlers
    closures,     \* the unsubscribe function returned for each callback
    delivered     \* the last videoStatusUpdate delivered: socket and calls made

\* the state of the SocketService of the browser
clientVars == <<socket, isConnected, listeners, pendingSubscriptions, sockets,
                closures, delivered>>

\* the variables outside the HTTP pipeline
auxVars == <<conns, an, clientVars>>

vars == <<video, fileOnDisk, up_pc, uploadRes, pc, loaded, sens, result, err,
          events, sc_pc, snap, sc_runs, resp, overridden, auxVars>>

\* null / undefined of a string-valued field, and of a number-valued field
Null == "null"
NullNum == -1

\* A JavaScript number as produced by parseInt: NaN, or an integer
NaN == [nan |-> TRUE, v |-> 0]
Num(n) == [nan |-> FALSE, v |-> n]

\* ------------------------------------------------------------------ bounds
MaxScriptRuns == 1
AssetSize == 4
MaxSockets == 2

\* ------------------------------------------------------------- text values
\* A JavaScript string is a sequence of one-character strings.
Lower(c) ==
    CASE c = "A" -> "a" [] c = "B" -> "b" [] c = "C" -> "c" [] c = "D" -> "d"
      [] c = "E" -> "e" [] c = "F" -> "f" [] c = "G" -> "g" [] c = "H" -> "h"
      [] c = "I" -> "i" [] c = "J" -> "j" [] c = "K" -> "k" [] c = "L" -> "l"
      [] c = "M" -> "m" [] c = "N" -> "n" [] c = "O" -> "o" [] c = "P" -> "p"
      [] c = "Q" -> "q" [] c = "R" -> "r" [] c = "S" -> "s" [] c = "T" -> "t"
      [] c = "U" -> "u" [] c = "V" -> "v" [] c = "W" -> "w" [] c = "X" -> "x"
      [] c = "Y" -> "y" [] c = "Z" -> "z"
      [] OTHER -> c

toLowerCase(s) == [i \in 1..Len(s) |-> Lower(s[i])]

\* s.includes(k)
includes(s, k) ==
    \E i \in 0..(Len(s) - Len(k)) : \A j \in 1..Len(k) : s[i + j] = k[j]

IsSpace(c) == c = " "

RECURSIVE trimLeft(_)
trimLeft(s) == IF s # <<>> /\ IsSpace(Head(s)) THEN trimLeft(Tail(s)) ELSE s

RECURSIVE trimRight(_)
trimRight(s) ==
    IF s # <<>> /\ IsSpace(s[Len(s)]) THEN trimRight(SubSeq(s, 1, Len(s) - 1)) ELSE s

trim(s) == trimRight(trimLeft(s))

UNSAFE_KEYWORDS ==
    { <<"n","s","f","w">>,
      <<"e","x","p","l","i","c","i","t">>,
      <<"v","i","o","l","e","n","c","e">>,
      <<"a","t","t","a","c","k">>,
      <<"k","i","l","l">>,
      <<"a","b","u","s","e">>,
      <<"t","e","s","t","-","f","l","a","g">> }

\* an analyzeSensitivity that looks for the keywords in the title only
analyzeSensitivity_TitleOnly(title, description, rnd) ==
    IF title = <<>> /\ description = <<>> THEN "safe"
    ELSE LET content == toLowerCase(title)
         IN  IF \E k \in UNSAFE_KEYWORDS : includes(content, k) THEN "flagged"
             ELSE IF rnd THEN "flagged" ELSE "safe"

\* analyzeSensitivity(metadata): rnd is the outcome of Math.random() < 0.1
analyzeSensitivity(title, description, rnd) ==
    IF title = <<>> /\ description = <<>> THEN "safe"
    ELSE LET content == toLowerCase(title \o <<" ">> \o description)
         IN  IF \E k \in UNSAFE_KEYWORDS : includes(content, k) THEN "flagged"
             ELSE IF rnd THEN "flagged" ELSE "safe"

\* ------------------------------------------------------------------- users
Users ==
    { [userId |-> "u1", role |-> "editor", organization |-> "A"],
      [userId |-> "u2", role |-> "viewer", organization |-> "A"],
      [userId |-> "u3", role |-> "viewer", organization |-> "B"],
      [userId |-> "u4", role |-> "editor", organization |-> Null],
      [userId |-> "a1", role |-> "admin",  organization |-> "A"] }

Uploaders == {u \in Users : u.userId \in {"u1", "u4"}}

\* Titles offered to the upload form (req.body.title).
Titles == { <<" ">>, <<"o","k"," ">>, <<"K","i","l","l">> }

\* Tokens presented as req.query.token: absent, or a JWT with its payload.
NoUser == [userId |-> Null, role |-> Null, organization |-> Null]

\* A token comes with the state of the user record its payload names at the
\* time of the request (account): active, deleted, deactivated (isActive
\* false), or password changed after the token was issued.
Accounts == {"active", "deleted", "deactivated", "passwordChanged"}

Tokens ==
    { [present |-> FALSE, sigOk |-> FALSE, expired |-> FALSE, payload |-> NoUser,
       account |-> "active"] }
    \cup { [present |-> TRUE, sigOk |-> FALSE, expired |-> FALSE, payload |-> u,
            account |-> "active"] :
             u \in {u \in Users : u.userId = "a1"} }
    \cup { [present |-> TRUE, sigOk |-> TRUE, expired |-> TRUE, payload |-> u,
            account |-> "active"] :
             u \in {u \in Users : u.userId = "u1"} }
    \cup { [present |-> TRUE, sigOk |-> TRUE, expired |-> FALSE, payload |-> u,
            account |-> "active"] :
             u \in Users }

\* Valid, unexpired tokens of the owner u1 and of the viewer u2 for each state
\* of their user record
AccountTokens ==
    { [present |-> TRUE, sigOk |-> TRUE, expired |-> FALSE, payload |-> u,
       account |-> a] :
         u \in {u \in Users : u.userId \in {"u1", "u2"}}, a \in Accounts }

\* jwt.verify(token, secret) returns the payload; it throws unless the
\* signature verifies and the token is unexpired
jwtVerifies(token) == token.sigOk /\ ~token.expired

\* protect (authMiddleware): the message of its 401 answer, or "next" when it
\* calls next(); dbOk is FALSE when User.findById rejects
protect(token, dbOk) ==
    IF ~token.present
    THEN "Authentication required. Please log in to access this resource."
    ELSE IF ~token.sigOk THEN "Invalid authentication token."
    ELSE IF token.expired THEN "Your session has expired. Please log in again."
    ELSE IF ~dbOk THEN "Authentication failed."
    ELSE IF token.account = "deleted"
         THEN "The user associated with this token no longer exists."
    ELSE IF token.account = "deactivated" THEN "Your account has been deactivated."
    ELSE IF token.account = "passwordChanged"
         THEN "Password was recently changed. Please log in again."
    ELSE "next"

\* ids asked for in req.params.id: the document's id, or an id of no document
VideoId == "v1"
RequestIds == {VideoId, "v404"}

\* Range request headers offered by clients (req.headers.range); <<>> = absent
RangeHeaders ==
    { <<>>,
      <<"b","y","t","e","s","=","0","-","1">>,
      <<"b","y","t","e","s","=","2","-">> }

ValidTokens == {t \in Tokens : t.sigOk /\ ~t.expired}

\* The requests offered to streamVideo: every token for the document without
\* a Range header, every range for the owner and the admin, and the unknown
\* id for each kind of token.
Requests ==
    [id : {VideoId}, token : Tokens, range : {<<>>}]
    \cup [id : {VideoId},
          token : {t \in ValidTokens : t.payload.userId \in {"u1", "a1"}},
          range : RangeHeaders]
    \cup [id : {"v404"},
          token : {t \in Tokens : t.payload.userId \in {Null, "a1", "u2"}},
          range : {<<>>}]

\* The numbers written in the Range headers sent to a served file, with the
\* empty text and a text that is no number
Numerals ==
    { <<>>, <<"x">>, <<"0">>, <<"1">>, <<"3">>, <<"4">>, <<"9">>, <<"9","9">>,
      <<"5","0","0">>, <<"9","0","0">>, <<"9","9","9">>, <<"1","0","0","0">> }

\* Range headers of the form bytes=a-b, and a header naming two ranges
RangeInputs ==
    { <<"b","y","t","e","s","=">> \o a \o <<"-">> \o b : a \in Numerals, b \in Numerals }
    \cup { <<"b","y","t","e","s","=","0","-","1","0",",","2","0","-","3","0">>,
           <<"b","y","t","e","s","=","0","-","1",",","2","-","3">> }
    \cup { <<>> }

\* Sizes of the stored file (fs.statSync(videoPath).size)
FileSizes == {1, AssetSize, 1000}

\* ------------------------------------------------------------ range parsing
Digits == {"0","1","2","3","4","5","6","7","8","9"}

DigitVal(c) ==
    CASE c = "0" -> 0 [] c = "1" -> 1 [] c = "2" -> 2 [] c = "3" -> 3
      [] c = "4" -> 4 [] c = "5" -> 5 [] c = "6" -> 6 [] c = "7" -> 7
      [] c = "8" -> 8 [] c = "9" -> 9

BytesEq == <<"b","y","t","e","s","=">>

\* range.replace(/bytes=/, ''): drops the first occurrence of "bytes="
replaceBytes(s) ==
    LET hits == {i \in 0..(Len(s) - Len(BytesEq)) :
                    \A j \in 1..Len(BytesEq) : s[i + j] = BytesEq[j]}
    IN  IF hits = {} THEN s
        ELSE LET i == CHOOSE h \in hits : \A g \in hits : h <= g
             IN  SubSeq(s, 1, i) \o SubSeq(s, i + Len(BytesEq) + 1, Len(s))

\* s.split('-')
RECURSIVE splitDash(_, _)
splitDash(s, cur) ==
    IF s = <<>> THEN <<cur>>
    ELSE IF Head(s) = "-" THEN <<cur>> \o splitDash(Tail(s), <<>>)
    ELSE splitDash(Tail(s), Append(cur, Head(s)))

RECURSIVE digitsValue(_, _)
digitsValue(s, acc) ==
    IF s = <<>> \/ Head(s) \notin Digits THEN acc
    ELSE digitsValue(Tail(s), 10 * acc + DigitVal(Head(s)))

\* parseInt(s, 10)
parseInt(s) ==
    LET t == trimLeft(s)
        neg == t # <<>> /\ Head(t) = "-"
        u == IF t # <<>> /\ Head(t) \in {"-", "+"} THEN Tail(t) ELSE t
    IN  IF u = <<>> \/ Head(u) \notin Digits THEN NaN
        ELSE IF neg THEN Num(0 - digitsValue(u, 0)) ELSE Num(digitsValue(u, 0))

\* a chunk size that leaves the last byte of the range out
chunkSize_Exclusive(start, end) ==
    IF start.nan \/ end.nan THEN NaN ELSE Num(end.v - start.v)

\* (end - start) + 1 in JavaScript numbers
chunkSize(start, end) ==
    IF start.nan \/ end.nan THEN NaN ELSE Num((end.v - start.v) + 1)

\* Bytes delivered by fs.createReadStream(path, {start, end}).pipe(res);
\* StreamThrows when createReadStream rejects its options.
StreamThrows == -1

streamedBytes(start, end, fileSize) ==
    IF start.nan \/ end.nan THEN StreamThrows
    ELSE IF start.v < 0 \/ end.v < 0 \/ start.v > end.v THEN StreamThrows
    ELSE LET last == IF end.v > fileSize - 1 THEN fileSize - 1 ELSE end.v
         IN  IF start.v > last THEN 0 ELSE last - start.v + 1

\* ------------------------------------------------------------ streamVideo
\* The answer of streamVideo: status code, message of a JSON answer, and for a
\* served file the Content-Range (start, end, total), Accept-Ranges and
\* Content-Length headers and the bytes piped (offset of the first, count)
Response(code, message) ==
    [code |-> code, message |-> message, start |-> NaN, end |-> NaN,
     length |-> NaN, total |-> 0, acceptRanges |-> FALSE,
     offset |-> NaN, body |-> 0]

\* STEP 2: the non-admin caller is refused by the ownership / visibility check
OwnershipDenied(decoded, v) ==
    /\ decoded.role # "admin"
    /\ v.uploadedBy # decoded.userId
    /\ ~v.isPublic
    /\ (decoded.organization = Null \/ v.organization # decoded.organization)

\* a status check that only refuses the states of an unusable upload
NotReady_OnlyUnusable(v) == v.status \in {"uploading", "failed"}

\* STEP 3: the video is not ready for streaming
NotReady(v) == v.status # "completed"

\* a sensitivity check that lets the owner through
FlaggedDenied_OwnerBypass(decoded, v) ==
    /\ v.sensitivityStatus = "flagged"
    /\ decoded.role # "admin"
    /\ decoded.userId # v.uploadedBy

\* STEP 4: flagged content is refused to a non-admin
FlaggedDenied(decoded, v) ==
    v.sensitivityStatus = "flagged" /\ decoded.role # "admin"

\* Serving the file: the whole file, or the chunk the Range header asks for
ServeFile(range, fileSize) ==
    IF range = <<>>
    THEN [code |-> 200, message |-> "file", start |-> NaN, end |-> NaN,
          length |-> Num(fileSize), total |-> fileSize,
          acceptRanges |-> FALSE, offset |-> Num(0), body |-> fileSize]
    ELSE LET parts == splitDash(replaceBytes(range), <<>>)
             start == parseInt(parts[1])
             end   == IF Len(parts) >= 2 /\ parts[2] # <<>>
                      THEN parseInt(parts[2]) ELSE Num(fileSize - 1)
         IN  [code |-> 206, message |-> "chunk", start |-> start, end |-> end,
              length |-> chunkSize(start, end), total |-> fileSize,
              acceptRanges |-> TRUE, offset |-> start,
              body |-> streamedBytes(start, end, fileSize)]

\* The response of streamVideo to request req when the store holds v;
\* dbOk is FALSE when Video.findById rejects
StreamResponse(req, v, onDisk, dbOk) ==
    IF ~req.token.present THEN Response(401, "Authentication token required")
    ELSE IF ~jwtVerifies(req.token) THEN Response(401, "Invalid or expired token")
    ELSE IF ~dbOk THEN Response(500, "Streaming error")
    ELSE IF req.id # VideoId \/ ~v.created THEN Response(404, "Video not found")
    ELSE IF OwnershipDenied(req.token.payload, v)
         THEN Response(403, "You do not have permission to access this video")
    ELSE IF NotReady(v) THEN Response(400, "Video is still being processed")
    ELSE IF FlaggedDenied(req.token.payload, v)
         THEN Response(403, "Content flagged as sensitive. Admin access required.")
    ELSE IF ~onDisk THEN Response(404, "Video file not found")
    ELSE ServeFile(req.range, v.filesize)

\* ------------------------------------------------- socket connections
\* server.js keeps, for each socket connection, the user id its handshake
\* token resolved to and the rooms it joined
Connections == {"s1", "s2"}

NoConnection == [open |-> FALSE, userId |-> Null, rooms |-> {}]

\* global.io.to(room): the open connections that joined the room
Recipients(room) == {c \in Connections : conns[c].open /\ room \in conns[c].rooms}

\* ------------------------------------------------------- SocketService
\* The callbacks components pass to subscribeToVideoUpdates; each is a fresh
\* function, subscribed once.
Callbacks == {"cb1", "cb2"}
NoCallback == "none"

SocketIds == 1..MaxSockets

NoSocket == [state |-> "unused", handlers |-> <<>>]

NoDelivery == [socket |-> 0, calls |-> [cb \in Callbacks |-> 0]]

InitClient ==
    /\ socket = 0
    /\ isConnected = FALSE
    /\ listeners = NoCallback
    /\ pendingSubscriptions = <<>>
    /\ sockets = [s \in SocketIds |-> NoSocket]
    /\ closures = [cb \in Callbacks |-> "none"]
    /\ delivered = NoDelivery

\* ------------------------------------------------------ analyzeSensitivity
NoCall == [title |-> <<>>, description |-> <<>>, rnd |-> FALSE, out |-> Null]

\* The texts offered to analyzeSensitivity: a word, possibly inside a longer
\* text
Words ==
    { <<>>, <<"o","k">>, <<"k","i">>, <<"l","l">>, <<"k","i","l">>,
      <<"K","i","L","L">>, <<"N","S","F","W">>, <<"a","b","u","s","e">>,
      <<"A","t","t","a","c","k">>, <<"e","x","p","l","i","c","i","t">>,
      <<"V","I","O","L","E","N","C","E">>,
      <<"t","e","s","t","-","f","l","a","g">>,
      <<"t","e","s","t","_","f","l","a","g">> }

Texts == {pre \o w \o suf : pre \in {<<>>, <<"s">>, <<"a"," ">>},
                             w \in Words, suf \in {<<>>, <<"s">>}}

Descriptions == { <<>>, <<"l","l">>, <<"o","k">>, <<"n","s","f","w"," ">> }

\* --------------------------------------------------------- the document
NoVideo ==
    [created |-> FALSE, title |-> <<>>, description |-> <<>>,
     uploadedBy |-> Null, organization |-> Null, isPublic |-> FALSE,
     filesize |-> 0, status |-> Null, processingProgress |-> 0,
     sensitivityStatus |-> Null, duration |-> NullNum,
     resolution |-> [width |-> NullNum, height |-> NullNum],
     bitrate |-> NullNum, codec |-> Null, thumbnailPath |-> Null,
     processingError |-> <<>>, isDeleted |-> FALSE]

\* result.metadata of processVideo before the probe
NoMetadata ==
    [width |-> NullNum, height |-> NullNum, codec |-> Null, bitrate |-> NullNum]

NoResult == [duration |-> NullNum, thumbnailPath |-> Null, metadata |-> NoMetadata]

\* the JSON answer of the upload route
UploadResponse(code, message) == [code |-> code, message |-> message, id |-> Null]

NoRequest ==
    [id |-> Null,
     token |-> [present |-> FALSE, sigOk |-> FALSE, expired |-> FALSE,
                payload |-> NoUser, account |-> "active"],
     range |-> <<>>]

Init ==
    /\ video = NoVideo
    /\ fileOnDisk = FALSE
    /\ up_pc = "idle"
    /\ uploadRes = UploadResponse(0, "none")
    /\ pc = "idle"
    /\ loaded = FALSE
    /\ sens = Null
    /\ result = NoResult
    /\ err = <<>>
    /\ events = <<>>
    /\ sc_pc = "idle"
    /\ snap = [duration |-> NullNum, thumbnailPath |-> Null, status |-> Null,
               processingProgress |-> 0]
    /\ sc_runs = 0
    /\ resp = [req |-> NoRequest, dbOk |-> TRUE, res |-> Response(0, "none")]
    /\ overridden = FALSE
    /\ conns = [c \in Connections |-> NoConnection]
    /\ an = NoCall
    /\ InitClient

\* ----------------------------------------------------------- uploadVideo
\* The file part of the multipart request, as multer sees it
ALLOWED_VIDEO_TYPES ==
    {"video/mp4", "video/mpeg", "video/quicktime", "video/x-msvideo",
     "video/webm", "video/x-matroska", "video/avi", "video/mkv"}

ALLOWED_EXTENSIONS == {".mp4", ".mpeg", ".mov", ".avi", ".webm", ".mkv"}

\* the enum of the mimeType path of the Video schema
MimeTypeEnum ==
    {"video/mp4", "video/mpeg", "video/quicktime", "video/x-msvideo",
     "video/webm", "video/x-matroska"}

Files ==
    [mimetype : {"video/mp4", "video/avi", "text/plain"},
     ext : {".mp4", ".exe"},
     oversize : BOOLEAN]

\* videoFileFilter: the error it passes to its callback (<<>>: accepted)
videoFileFilter(file) ==
    IF file.mimetype \notin ALLOWED_VIDEO_TYPES THEN "Invalid file type"
    ELSE IF file.ext \notin ALLOWED_EXTENSIONS THEN "Invalid file extension"
    ELSE "accepted"

\* a deleteFile that leaves the file where it is
deleteFile_KeepsFile(onDisk) == onDisk

\* deleteFile(filepath): whether the file exists afterwards
deleteFile(onDisk) == FALSE

\* multer: the file filter refuses the part; nothing is written.
UploadFilterReject(file) ==
    /\ up_pc = "idle"
    /\ videoFileFilter(file) # "accepted"
    /\ uploadRes' = UploadResponse(400, videoFileFilter(file))
    /\ up_pc' = "done"
    /\ UNCHANGED <<video, fileOnDisk, pc, loaded, sens, result, err, events,
                   sc_pc, snap, sc_runs, resp>>
    /\ UNCHANGED <<overridden, auxVars>>

\* multer: the part exceeds limits.fileSize while it is being written; multer
\* removes the file it was writing and handleMulterError answers 400.
UploadTooLarge(file) ==
    /\ up_pc = "idle"
    /\ videoFileFilter(file) = "accepted"
    /\ file.oversize
    /\ fileOnDisk' = FALSE
    /\ uploadRes' = UploadResponse(400, "File too large")
    /\ up_pc' = "done"
    /\ UNCHANGED <<video, pc, loaded, sens, result, err, events, sc_pc, snap,
                   sc_runs, resp>>
    /\ UNCHANGED <<overridden, auxVars>>

\* The title is blank: the uploaded file is deleted and 400 is answered.
UploadReject(title, file) ==
    /\ up_pc = "idle"
    /\ videoFileFilter(file) = "accepted"
    /\ ~file.oversize
    /\ trim(title) = <<>>
    /\ fileOnDisk' = deleteFile(TRUE)
    /\ uploadRes' = UploadResponse(400, "Video title is required.")
    /\ up_pc' = "done"
    /\ UNCHANGED <<video, pc, loaded, sens, result, err, events, sc_pc, snap,
                   sc_runs, resp>>
    /\ UNCHANGED <<overridden, auxVars>>

\* multer stored the file and Video.create(videoData) resolved.
UploadCreate(title, user, file) ==
    /\ up_pc = "idle"
    /\ videoFileFilter(file) = "accepted"
    /\ ~file.oversize
    /\ trim(title) # <<>>
    /\ file.mimetype \in MimeTypeEnum
    /\ video' = [NoVideo EXCEPT !.created = TRUE,
                                !.title = trim(title),
                                !.uploadedBy = user.userId,
                                !.organization = user.organization,
                                !.filesize = AssetSize,
                                !.status = "uploading",
                                !.sensitivityStatus = "pending",
                                !.processingProgress = 0]
    /\ fileOnDisk' = TRUE
    /\ up_pc' = "created"
    /\ UNCHANGED <<uploadRes, pc, loaded, sens, result, err, events, sc_pc,
                   snap, sc_runs, resp>>
    /\ UNCHANGED <<overridden, auxVars>>

\* Video.create rejected (the mimetype is not in the schema's enum, or the
\* store failed): the catch block deletes the file (video is null) and the
\* error handler answers.
UploadCreateFails(title, file) ==
    /\ up_pc = "idle"
    /\ videoFileFilter(file) = "accepted"
    /\ ~file.oversize
    /\ trim(title) # <<>>
    /\ fileOnDisk' = deleteFile(TRUE)
    /\ uploadRes' = IF file.mimetype \notin MimeTypeEnum
                    THEN UploadResponse(400, "Validation failed: Unsupported video format")
                    ELSE UploadResponse(500, "store unavailable")
    /\ up_pc' = "done"
    /\ UNCHANGED <<video, pc, loaded, sens, result, err, events, sc_pc, snap,
                   sc_runs, resp>>
    /\ UNCHANGED <<overridden, auxVars>>

\* video.save() resolved: processing / 10, the orchestrator is started
\* (it runs up to its first await) and 201 is answered with the record id.
UploadSave ==
    /\ up_pc = "created"
    /\ video' = [video EXCEPT !.status = "processing",
                              !.processingProgress = 10]
    /\ pc' = "find"
    /\ uploadRes' = [UploadResponse(201, "Video uploaded successfully. Processing started.")
                       EXCEPT !.id = VideoId]
    /\ up_pc' = "done"
    /\ UNCHANGED <<fileOnDisk, loaded, sens, result, err, events, sc_pc, snap,
                   sc_runs, resp>>
    /\ UNCHANGED <<overridden, auxVars>>

\* video.save() rejected: the error goes to next(error); video is non-null,
\* so the file is kept and no orchestrator is started.
UploadSaveFails ==
    /\ up_pc = "created"
    /\ uploadRes' = UploadResponse(500, "store unavailable")
    /\ up_pc' = "done"
    /\ UNCHANGED <<video, fileOnDisk, pc, loaded, sens, result, err, events,
                   sc_pc, snap, sc_runs, resp>>
    /\ UNCHANGED <<overridden, auxVars>>

\* ---------------------------------------------------------- processVideo
\* Durations reported by ffprobe (metadata.format.duration), in tenths of a
\* second; NullNum when the format carries none.
RawDurations == {NullNum, 104}

\* Errors raised by the external tool and by the record store
ToolErrors == {<<"ffprobe exited with code 1">>}
DbError == <<"store unavailable">>

\* What ffprobe reports of the video stream and the format (width, height,
\* codec_name, bit_rate)
Probed == [width |-> 1280, height |-> 720, codec |-> "h264", bitrate |-> 800]

\* Math.round(metadata.duration || 0), on tenths of a second
MathRound(raw) == IF raw = NullNum THEN 0 ELSE (raw + 5) \div 10

\* getVideoMetadata rejects with new Error(`Failed to read video metadata: ...`)
getVideoMetadataError(e) == <<"Failed to read video metadata">> \o e

\* generateThumbnail rejects with new Error(`Failed to generate thumbnail: ...`)
generateThumbnailError(e) == <<"Failed to generate thumbnail">> \o e

\* processVideo, outer catch: throw new Error(`Video processing failed: ...`)
processVideoError(m) == <<"Video processing failed">> \o m

\* a processVideo whose thumbnail error reaches the outer catch
ThumbnailFailure_Propagates(m) ==
    [threw |-> TRUE, error |-> m, thumbnailPath |-> Null]

\* processVideo, inner catch around generateThumbnail: the error is logged
\* and the thumbnail path stays null.
ThumbnailFailure(m) == [threw |-> FALSE, error |-> <<>>, thumbnailPath |-> Null]

\* ----------------------------------------------- processVideoInBackground
Event(v, status, progress) ==
    [to |-> v.uploadedBy, rcpt |-> Recipients(v.uploadedBy),
     status |-> status, progress |-> progress,
     thumbnailPath |-> Null, duration |-> NullNum, error |-> <<>>,
     sensitivityStatus |-> Null]

\* a catch block that leaves the progress where it was
FailedUpdate_KeepsProgress(v, e) ==
    [v EXCEPT !.status = "failed", !.processingError = e]

\* the update of the catch block
FailedUpdate(v, e) ==
    [v EXCEPT !.status = "failed", !.processingProgress = 0,
              !.processingError = e]

\* a prober-unavailable path that gives the upload up
DegradedUpdate_MarksFailed(v) ==
    [v EXCEPT !.status = "failed", !.processingProgress = 0]

\* the update of the prober-unavailable path
DegradedUpdate(v) ==
    [v EXCEPT !.status = "completed", !.processingProgress = 100]

\* the final update with the processing results: status, duration,
\* thumbnailPath and processingProgress; its other keys ('metadata.width',
\* 'metadata.height', 'metadata.codec', 'metadata.bitrate') name no path of
\* the schema, whose strict mode drops them, and no key names resolution,
\* bitrate or codec
CompletedUpdate(v, r) ==
    [v EXCEPT !.status = "completed", !.duration = r.duration,
              !.thumbnailPath = r.thumbnailPath, !.processingProgress = 100]

\* an awaited operation rejected: control moves to the catch block
Throw(e) ==
    /\ pc' = "catch"
    /\ err' = e

\* Video.findById resolved; the processing-started event is emitted.
OrchFind ==
    /\ pc = "find"
    /\ loaded' = TRUE
    /\ events' = Append(events, Event(video, "processing", 10))
    /\ pc' = "check"
    /\ UNCHANGED <<video, fileOnDisk, up_pc, uploadRes, sens, result, err,
                   sc_pc, snap, sc_runs, resp>>
    /\ UNCHANGED <<overridden, auxVars>>

OrchFindFails ==
    /\ pc = "find"
    /\ Throw(DbError)
    /\ UNCHANGED <<video, fileOnDisk, up_pc, uploadRes, loaded, sens, result,
                   events, sc_pc, snap, sc_runs, resp>>
    /\ UNCHANGED <<overridden, auxVars>>

\* checkFFmpegAvailable resolved
OrchCheck(available) ==
    /\ pc = "check"
    /\ pc' = IF available THEN "w30" ELSE "w_degraded"
    /\ UNCHANGED <<video, fileOnDisk, up_pc, uploadRes, loaded, sens, result,
                   err, events, sc_pc, snap, sc_runs, resp>>
    /\ UNCHANGED <<overridden, auxVars>>

\* prober unavailable: completed / 100 without processing
OrchDegraded ==
    /\ pc = "w_degraded"
    /\ video' = DegradedUpdate(video)
    /\ events' = Append(events, Event(video, "completed", 100))
    /\ pc' = "done"
    /\ UNCHANGED <<fileOnDisk, up_pc, uploadRes, loaded, sens, result, err,
                   sc_pc, snap, sc_runs, resp>>
    /\ UNCHANGED <<overridden, auxVars>>

OrchDegradedFails ==
    /\ pc = "w_degraded"
    /\ Throw(DbError)
    /\ UNCHANGED <<video, fileOnDisk, up_pc, uploadRes, loaded, sens, result,
                   events, sc_pc, snap, sc_runs, resp>>
    /\ UNCHANGED <<overridden, auxVars>>

\* progress 30 stored and emitted; analyzeSensitivity runs on title and
\* description (rnd: the outcome of its random draw)
OrchProgress30(rnd) ==
    /\ pc = "w30"
    /\ video' = [video EXCEPT !.processingProgress = 30]
    /\ events' = Append(events, Event(video, "processing", 30))
    /\ sens' = analyzeSensitivity(video.title, video.description, rnd)
    /\ pc' = "wsens"
    /\ UNCHANGED <<fileOnDisk, up_pc, uploadRes, loaded, result, err, sc_pc,
                   snap, sc_runs, resp>>
    /\ UNCHANGED <<overridden, auxVars>>

OrchProgress30Fails ==
    /\ pc = "w30"
    /\ Throw(DbError)
    /\ UNCHANGED <<video, fileOnDisk, up_pc, uploadRes, loaded, sens, result,
                   events, sc_pc, snap, sc_runs, resp>>
    /\ UNCHANGED <<overridden, auxVars>>

\* the sensitivity status is stored; processVideo is called
OrchSaveSensitivity ==
    /\ pc = "wsens"
    /\ video' = [video EXCEPT !.sensitivityStatus = sens]
    /\ pc' = "probe"
    /\ UNCHANGED <<fileOnDisk, up_pc, uploadRes, loaded, sens, result, err,
                   events, sc_pc, snap, sc_runs, resp>>
    /\ UNCHANGED <<overridden, auxVars>>

OrchSaveSensitivityFails ==
    /\ pc = "wsens"
    /\ Throw(DbError)
    /\ UNCHANGED <<video, fileOnDisk, up_pc, uploadRes, loaded, sens, result,
                   events, sc_pc, snap, sc_runs, resp>>
    /\ UNCHANGED <<overridden, auxVars>>

\* processVideo: getVideoMetadata resolved with a duration
OrchProbe(raw) ==
    /\ pc = "probe"
    /\ result' = [result EXCEPT !.duration = MathRound(raw),
                                !.metadata = Probed]
    /\ pc' = "thumb"
    /\ UNCHANGED <<video, fileOnDisk, up_pc, uploadRes, loaded, sens, err,
                   events, sc_pc, snap, sc_runs, resp>>
    /\ UNCHANGED <<overridden, auxVars>>

\* processVideo: getVideoMetadata rejected; processVideo rethrows
OrchProbeFails(e) ==
    /\ pc = "probe"
    /\ Throw(processVideoError(getVideoMetadataError(e)))
    /\ UNCHANGED <<video, fileOnDisk, up_pc, uploadRes, loaded, sens, result,
                   events, sc_pc, snap, sc_runs, resp>>
    /\ UNCHANGED <<overridden, auxVars>>

\* the ffprobe callback is never invoked: no timer is armed around the call
OrchProbeHangs ==
    /\ pc = "probe"
    /\ pc' = "hung"
    /\ UNCHANGED <<video, fileOnDisk, up_pc, uploadRes, loaded, sens, result,
                   err, events, sc_pc, snap, sc_runs, resp>>
    /\ UNCHANGED <<overridden, auxVars>>

\* processVideo: generateThumbnail resolved; processVideo returns
OrchThumb ==
    /\ pc = "thumb"
    /\ result' = [result EXCEPT !.thumbnailPath = "thumb_orchestrator"]
    /\ pc' = "w80"
    /\ UNCHANGED <<video, fileOnDisk, up_pc, uploadRes, loaded, sens, err,
                   events, sc_pc, snap, sc_runs, resp>>
    /\ UNCHANGED <<overridden, auxVars>>

\* processVideo: generateThumbnail rejected
OrchThumbFails(e) ==
    /\ pc = "thumb"
    /\ LET f == ThumbnailFailure(generateThumbnailError(e))
       IN  IF f.threw
           THEN Throw(processVideoError(f.error)) /\ UNCHANGED result
           ELSE /\ result' = [result EXCEPT !.thumbnailPath = f.thumbnailPath]
                /\ pc' = "w80"
                /\ UNCHANGED err
    /\ UNCHANGED <<video, fileOnDisk, up_pc, uploadRes, loaded, sens, events,
                   sc_pc, snap, sc_runs, resp>>
    /\ UNCHANGED <<overridden, auxVars>>

\* neither 'end' nor 'error' is ever emitted by the screenshot process
OrchThumbHangs ==
    /\ pc = "thumb"
    /\ pc' = "hung"
    /\ UNCHANGED <<video, fileOnDisk, up_pc, uploadRes, loaded, sens, result,
                   err, events, sc_pc, snap, sc_runs, resp>>
    /\ UNCHANGED <<overridden, auxVars>>

\* progress 80 stored and emitted
OrchProgress80 ==
    /\ pc = "w80"
    /\ video' = [video EXCEPT !.processingProgress = 80]
    /\ events' = Append(events, Event(video, "processing", 80))
    /\ pc' = "wfinal"
    /\ UNCHANGED <<fileOnDisk, up_pc, uploadRes, loaded, sens, result, err,
                   sc_pc, snap, sc_runs, resp>>
    /\ UNCHANGED <<overridden, auxVars>>

OrchProgress80Fails ==
    /\ pc = "w80"
    /\ Throw(DbError)
    /\ UNCHANGED <<video, fileOnDisk, up_pc, uploadRes, loaded, sens, result,
                   events, sc_pc, snap, sc_runs, resp>>
    /\ UNCHANGED <<overridden, auxVars>>

\* the results are stored and the completion event is emitted
OrchFinal ==
    /\ pc = "wfinal"
    /\ video' = CompletedUpdate(video, result)
    /\ events' = Append(events,
                   [Event(video, "completed", 100) EXCEPT
                      !.thumbnailPath = result.thumbnailPath,
                      !.duration = result.duration,
                      !.sensitivityStatus = sens])
    /\ pc' = "done"
    /\ UNCHANGED <<fileOnDisk, up_pc, uploadRes, loaded, sens, result, err,
                   sc_pc, snap, sc_runs, resp>>
    /\ UNCHANGED <<overridden, auxVars>>

OrchFinalFails ==
    /\ pc = "wfinal"
    /\ Throw(DbError)
    /\ UNCHANGED <<video, fileOnDisk, up_pc, uploadRes, loaded, sens, result,
                   events, sc_pc, snap, sc_runs, resp>>
    /\ UNCHANGED <<overridden, auxVars>>

\* catch block: the document is marked failed and the failure event is
\* emitted (only when the local video was loaded)
OrchCatch ==
    /\ pc = "catch"
    /\ video' = FailedUpdate(video, err)
    /\ events' = IF loaded
                 THEN Append(events,
                        [Event(video, "failed", 0) EXCEPT !.error = err])
                 ELSE events
    /\ pc' = "done"
    /\ UNCHANGED <<fileOnDisk, up_pc, uploadRes, loaded, sens, result, err,
                   sc_pc, snap, sc_runs, resp>>
    /\ UNCHANGED <<overridden, auxVars>>

\* catch block: its own findByIdAndUpdate rejects; nothing awaits or catches
\* the promise of processVideoInBackground, so the rejection is unhandled
\* and the unhandledRejection handler of server.js shuts the server down.
OrchCatchFails ==
    /\ pc = "catch"
    /\ pc' = "crashed"
    /\ UNCHANGED <<video, fileOnDisk, up_pc, uploadRes, loaded, sens, result,
                   err, events, sc_pc, snap, sc_runs, resp>>
    /\ UNCHANGED <<overridden, auxVars>>

Orchestrator ==
    \/ OrchFind \/ OrchFindFails
    \/ \E available \in BOOLEAN : OrchCheck(available)
    \/ OrchDegraded \/ OrchDegradedFails
    \/ \E rnd \in BOOLEAN : OrchProgress30(rnd)
    \/ OrchProgress30Fails
    \/ OrchSaveSensitivity \/ OrchSaveSensitivityFails
    \/ \E raw \in RawDurations : OrchProbe(raw)
    \/ \E e \in ToolErrors : OrchProbeFails(e)
    \/ OrchProbeHangs
    \/ OrchThumb
    \/ \E e \in ToolErrors : OrchThumbFails(e)
    \/ OrchThumbHangs
    \/ OrchProgress80 \/ OrchProgress80Fails
    \/ OrchFinal \/ OrchFinalFails
    \/ OrchCatch \/ OrchCatchFails

\* ------------------------------------------------- reprocess-videos script
\* the query of Video.find: not deleted, and no thumbnail or no duration
ScriptSelects(v) ==
    /\ v.created
    /\ ~v.isDeleted
    /\ (v.thumbnailPath = Null \/ v.thumbnailPath = "" \/ v.duration = NullNum
        \/ v.duration = 0)

\* video.save() of the loaded document sn after the assignments of the loop
\* body: a path is written when its assigned value differs from the loaded one
Loaded(v) ==
    [duration |-> v.duration, thumbnailPath |-> v.thumbnailPath,
     status |-> v.status, processingProgress |-> v.processingProgress]

ScriptSave(db, sn, r) ==
    [db EXCEPT
       !.duration = IF sn.duration # r.duration THEN r.duration ELSE @,
       !.thumbnailPath =
           IF sn.thumbnailPath # r.thumbnailPath THEN r.thumbnailPath ELSE @,
       !.status = IF sn.status # "completed" THEN "completed" ELSE @,
       !.processingProgress = IF sn.processingProgress # 100 THEN 100 ELSE @]

\* FFmpeg is not available, or the store cannot be reached: process.exit(1)
ScriptAbort ==
    /\ sc_pc \in {"idle", "exited", "aborted"}
    /\ sc_runs < MaxScriptRuns
    /\ sc_runs' = sc_runs + 1
    /\ sc_pc' = "aborted"
    /\ UNCHANGED <<video, fileOnDisk, up_pc, uploadRes, pc, loaded, sens,
                   result, err, events, snap, resp>>
    /\ UNCHANGED <<overridden, auxVars>>

\* Video.find resolved: the document is loaded when the query selects it
ScriptFind ==
    /\ sc_pc \in {"idle", "exited", "aborted"}
    /\ sc_runs < MaxScriptRuns
    /\ sc_runs' = sc_runs + 1
    /\ IF ScriptSelects(video)
       THEN snap' = Loaded(video) /\ sc_pc' = "loop"
       ELSE snap' = Loaded(NoVideo) /\ sc_pc' = "exited"
    /\ UNCHANGED <<video, fileOnDisk, up_pc, uploadRes, pc, loaded, sens,
                   result, err, events, resp>>
    /\ UNCHANGED <<overridden, auxVars>>

\* loop body: the file is not on disk
ScriptFileMissing ==
    /\ sc_pc = "loop"
    /\ ~fileOnDisk
    /\ sc_pc' = "exited"
    /\ snap' = Loaded(NoVideo)
    /\ UNCHANGED <<video, fileOnDisk, up_pc, uploadRes, pc, loaded, sens,
                   result, err, events, sc_runs, resp>>
    /\ UNCHANGED <<overridden, auxVars>>

\* loop body: processVideo resolved (with or without a thumbnail) and the
\* document is saved
ScriptProcess(raw, thumbOk) ==
    /\ sc_pc = "loop"
    /\ fileOnDisk
    /\ LET f == ThumbnailFailure(generateThumbnailError(<<"ffmpeg exited">>))
           r == [duration |-> MathRound(raw),
                 thumbnailPath |-> IF thumbOk THEN "thumb_script"
                                   ELSE f.thumbnailPath]
       IN  video' = IF ~thumbOk /\ f.threw THEN video
                    ELSE ScriptSave(video, snap, r)
    /\ sc_pc' = "exited"
    /\ snap' = Loaded(NoVideo)
    /\ UNCHANGED <<fileOnDisk, up_pc, uploadRes, pc, loaded, sens, result,
                   err, events, sc_runs, resp>>
    /\ UNCHANGED <<overridden, auxVars>>

\* loop body: processVideo or video.save() rejected; the error is printed
ScriptProcessFails ==
    /\ sc_pc = "loop"
    /\ fileOnDisk
    /\ sc_pc' = "exited"
    /\ snap' = Loaded(NoVideo)
    /\ UNCHANGED <<video, fileOnDisk, up_pc, uploadRes, pc, loaded, sens,
                   result, err, events, sc_runs, resp>>
    /\ UNCHANGED <<overridden, auxVars>>

Script ==
    \/ ScriptAbort
    \/ ScriptFind
    \/ ScriptFileMissing
    \/ \E raw \in RawDurations, thumbOk \in BOOLEAN : ScriptProcess(raw, thumbOk)
    \/ ScriptProcessFails

\* ------------------------------------------------------ other operations
\* toggleSensitivityStatus (admin route): the moderation override
ToggleSensitivity(status) ==
    /\ video.created
    /\ status \in {"safe", "flagged"}
    /\ video' = [video EXCEPT !.sensitivityStatus = status]
    /\ UNCHANGED <<fileOnDisk, up_pc, uploadRes, pc, loaded, sens, result,
                   err, events, sc_pc, snap, sc_runs, resp>>
    /\ overridden' = TRUE
    /\ UNCHANGED auxVars

\* updateVideo (owner or admin) with isPublic in the body
UpdateVideo(isPublic) ==
    /\ video.created
    /\ ~video.isDeleted
    /\ video' = [video EXCEPT !.isPublic = isPublic]
    /\ UNCHANGED <<fileOnDisk, up_pc, uploadRes, pc, loaded, sens, result,
                   err, events, sc_pc, snap, sc_runs, resp>>
    /\ UNCHANGED <<overridden, auxVars>>

\* deleteVideo (owner or admin): softDelete sets isDeleted and saves; the
\* file stays on disk
DeleteVideo(user) ==
    /\ video.created
    /\ user.userId = video.uploadedBy \/ user.role = "admin"
    /\ video' = [video EXCEPT !.isDeleted = TRUE]
    /\ UNCHANGED <<fileOnDisk, up_pc, uploadRes, pc, loaded, sens, result,
                   err, events, sc_pc, snap, sc_runs, resp>>
    /\ UNCHANGED <<overridden, auxVars>>

\* the storage loses the uploaded file (the case both streamVideo and the
\* script test with fs.existsSync)
LoseFile ==
    /\ video.created
    /\ fileOnDisk
    /\ fileOnDisk' = FALSE
    /\ UNCHANGED <<video, up_pc, uploadRes, pc, loaded, sens, result, err,
                   events, sc_pc, snap, sc_runs, resp>>
    /\ UNCHANGED <<overridden, auxVars>>

\* streamVideo handles request req
StreamVideo(req, dbOk) ==
    /\ resp' = [req |-> req, dbOk |-> dbOk,
                res |-> StreamResponse(req, video, fileOnDisk, dbOk)]
    /\ UNCHANGED <<video, fileOnDisk, up_pc, uploadRes, pc, loaded, sens,
                   result, err, events, sc_pc, snap, sc_runs>>
    /\ UNCHANGED <<overridden, auxVars>>

\* ------------------------------------------------ the real-time channel
\* io.use: the handshake is accepted when the token is present and verifies
HandshakeAccepted(token) == token.present /\ jwtVerifies(token)

\* a join handler that lets a connection name any room
JoinAllowed_AnyRoom(conn, userId) == userId # Null

\* socket.on('join'): the room is joined only when it is the connection's own
JoinAllowed(conn, userId) == userId # Null /\ userId = conn.userId

\* A client opens connection c with the token in handshake.auth: io.use
\* verifies it, and the connection handler joins the room of socket.userId
\* (a socket is always in the room of its own id).
Handshake(c, token) ==
    /\ ~conns[c].open
    /\ conns' = IF HandshakeAccepted(token)
                THEN [conns EXCEPT ![c] =
                        [open |-> TRUE, userId |-> token.payload.userId,
                         rooms |-> {c} \cup
                                   (IF token.payload.userId # Null
                                    THEN {token.payload.userId} ELSE {})]]
                ELSE conns
    /\ UNCHANGED <<video, fileOnDisk, up_pc, uploadRes, pc, loaded, sens,
                   result, err, events, sc_pc, snap, sc_runs, resp, overridden,
                   an, clientVars>>

\* The client of connection c sends `join` with a user id
Join(c, userId) ==
    /\ conns[c].open
    /\ conns' = IF JoinAllowed(conns[c], userId)
                THEN [conns EXCEPT ![c].rooms = @ \cup {userId}]
                ELSE conns
    /\ UNCHANGED <<video, fileOnDisk, up_pc, uploadRes, pc, loaded, sens,
                   result, err, events, sc_pc, snap, sc_runs, resp, overridden,
                   an, clientVars>>

\* Connection c is closed: the socket leaves its rooms
Disconnect(c) ==
    /\ conns[c].open
    /\ conns' = [conns EXCEPT ![c] = NoConnection]
    /\ UNCHANGED <<video, fileOnDisk, up_pc, uploadRes, pc, loaded, sens,
                   result, err, events, sc_pc, snap, sc_runs, resp, overridden,
                   an, clientVars>>

UserIds == {u.userId : u \in Users}

\* Tokens presented in the handshake: none, a forged one, an expired one, and
\* the valid tokens of the two uploaders and of the admin
HandshakeTokens == {t \in Tokens : t.payload.userId \in {Null, "u1", "u4", "a1"}}

Channel ==
    \/ \E c \in Connections, token \in HandshakeTokens : Handshake(c, token)
    \/ \E c \in Connections, userId \in UserIds \cup {Null} : Join(c, userId)
    \/ \E c \in Connections : Disconnect(c)

\* analyzeSensitivity is called on a title and a description
Analyze ==
    /\ an.out = Null
    /\ an' = [an EXCEPT !.out = analyzeSensitivity(an.title, an.description, an.rnd)]
    /\ UNCHANGED <<video, fileOnDisk, up_pc, uploadRes, pc, loaded, sens,
                   result, err, events, sc_pc, snap, sc_runs, resp, overridden,
                   conns, clientVars>>

Upload ==
    \/ \E file \in Files : UploadFilterReject(file)
    \/ \E file \in Files : UploadTooLarge(file)
    \/ \E title \in Titles, file \in Files : UploadReject(title, file)
    \/ \E title \in Titles, user \in Uploaders, file \in Files :
          UploadCreate(title, user, file)
    \/ \E title \in Titles, file \in Files : UploadCreateFails(title, file)
    \/ UploadSave
    \/ UploadSaveFails

\* The operations of the server on the document, other than streaming
Pipeline ==
    \/ Upload
    \/ Orchestrator
    \/ \E status \in {"safe", "flagged"} : ToggleSensitivity(status)
    \/ \E isPublic \in BOOLEAN : UpdateVideo(isPublic)
    \/ LoseFile

\* The server: the pipeline and the streaming endpoint
Next ==
    \/ Pipeline
    \/ \E req \in Requests, dbOk \in BOOLEAN : StreamVideo(req, dbOk)

Spec == Init /\ [][Next]_vars

\* The pipeline together with runs of the reprocess-videos script, a separate
\* process working on the same store
NextReprocess ==
    \/ Pipeline
    \/ Script

SpecReprocess == Init /\ [][NextReprocess]_vars

\* The orchestrator proceeds whenever one of its steps is enabled: each of
\* its awaits is resumed by the event loop once the awaited operation
\* settles. Nothing forces an external process to settle.
FairReprocess == SpecReprocess /\ WF_vars(Orchestrator) /\ WF_vars(UploadSave)

\* ------------------------------------------- SocketService (browser)
\* everything on the server side
serverVars == <<video, fileOnDisk, up_pc, uploadRes, pc, loaded, sens, result,
                err, events, sc_pc, snap, sc_runs, resp, overridden, conns, an>>

\* this.socket?.connected
socketConnected == socket # 0 /\ sockets[socket].state = "connected"

\* the number of times cb occurs in the sequence q
RECURSIVE Count(_, _)
Count(cb, q) ==
    IF q = <<>> THEN 0
    ELSE (IF Head(q) = cb THEN 1 ELSE 0) + Count(cb, Tail(q))

\* q.filter(sub => sub.callback !== cb)
RECURSIVE Without(_, _)
Without(q, cb) ==
    IF q = <<>> THEN <<>>
    ELSE IF Head(q) = cb THEN Without(Tail(q), cb)
    ELSE <<Head(q)>> \o Without(Tail(q), cb)

\* an unsubscribe that leaves the pending queue alone
purgePending_KeepsEntry(q, cb) == q

\* the unsubscribe closure: the pending entries of its callback are dropped
purgePending(q, cb) == Without(q, cb)

\* addListener(eventName, callback) for each callback of q, in order: the
\* handlers are registered on this.socket; nothing happens without a socket
addListeners(ss, q) ==
    IF socket = 0 THEN ss
    ELSE [ss EXCEPT ![socket].handlers = @ \o q]

\* this.socket.off(eventName, this.listeners.get(eventName)) and
\* this.listeners.delete(eventName), when there is a socket and an entry
removeListener(ss) ==
    IF socket # 0 /\ listeners # NoCallback
    THEN [ss EXCEPT ![socket].handlers = Without(@, listeners)]
    ELSE ss

\* connect(token): nothing when the socket is connected or the token is
\* missing; otherwise a new socket is created and replaces this.socket
ConnectCall(hasToken) ==
    /\ IF socketConnected \/ ~hasToken
       THEN UNCHANGED <<socket, sockets>>
       ELSE /\ \E n \in SocketIds : sockets[n].state = "unused"
            /\ LET n == CHOOSE k \in SocketIds :
                           /\ sockets[k].state = "unused"
                           /\ \A j \in SocketIds :
                                sockets[j].state = "unused" => k <= j
               IN  /\ socket' = n
                   /\ sockets' = [sockets EXCEPT ![n].state = "connecting"]
    /\ UNCHANGED <<isConnected, listeners, pendingSubscriptions, closures,
                   delivered>>
    /\ UNCHANGED serverVars

\* socket s reports 'connect' (first connection or reconnection): the handler
\* sets isConnected and runs processPendingSubscriptions
TransportConnect(s) ==
    /\ sockets[s].state \in {"connecting", "lost"}
    /\ isConnected' = TRUE
    /\ sockets' = addListeners([sockets EXCEPT ![s].state = "connected"],
                               pendingSubscriptions)
    /\ listeners' = IF socket # 0 /\ pendingSubscriptions # <<>>
                    THEN pendingSubscriptions[Len(pendingSubscriptions)]
                    ELSE listeners
    /\ pendingSubscriptions' = <<>>
    /\ UNCHANGED <<socket, closures, delivered>>
    /\ UNCHANGED serverVars

\* socket s reports 'disconnect' (the transport is lost; the socket will
\* try to reconnect)
TransportDisconnect(s) ==
    /\ sockets[s].state = "connected"
    /\ sockets' = [sockets EXCEPT ![s].state = "lost"]
    /\ isConnected' = FALSE
    /\ UNCHANGED <<socket, listeners, pendingSubscriptions, closures, delivered>>
    /\ UNCHANGED serverVars

\* a videoStatusUpdate arrives on the connected socket s: each handler
\* registered on s calls its callback
Deliver(s) ==
    /\ sockets[s].state = "connected"
    /\ delivered' = [socket |-> s,
                     calls |-> [cb \in Callbacks |-> Count(cb, sockets[s].handlers)]]
    /\ UNCHANGED <<socket, isConnected, listeners, pendingSubscriptions,
                   sockets, closures>>
    /\ UNCHANGED serverVars

\* disconnect()
DisconnectCall ==
    /\ IF socket # 0
       THEN /\ sockets' = [sockets EXCEPT ![socket].state = "closed"]
            /\ socket' = 0
            /\ isConnected' = FALSE
            /\ listeners' = NoCallback
            /\ pendingSubscriptions' = <<>>
       ELSE UNCHANGED <<sockets, socket, isConnected, listeners,
                        pendingSubscriptions>>
    /\ UNCHANGED <<closures, delivered>>
    /\ UNCHANGED serverVars

\* subscribeToVideoUpdates(cb): the listener is added when the socket is
\* connected, the subscription is queued otherwise; the unsubscribe function
\* is returned
Subscribe(cb) ==
    /\ closures[cb] = "none"
    /\ IF socketConnected
       THEN /\ sockets' = addListeners(sockets, <<cb>>)
            /\ listeners' = cb
            /\ UNCHANGED pendingSubscriptions
       ELSE /\ pendingSubscriptions' = Append(pendingSubscriptions, cb)
            /\ UNCHANGED <<sockets, listeners>>
    /\ closures' = [closures EXCEPT ![cb] = "live"]
    /\ UNCHANGED <<socket, isConnected, delivered>>
    /\ UNCHANGED serverVars

\* the unsubscribe function returned for cb is called
Unsubscribe(cb) ==
    /\ closures[cb] \in {"live", "called"}
    /\ sockets' = removeListener(sockets)
    /\ listeners' = IF socket # 0 THEN NoCallback ELSE listeners
    /\ pendingSubscriptions' = purgePending(pendingSubscriptions, cb)
    /\ closures' = [closures EXCEPT ![cb] = "called"]
    /\ UNCHANGED <<socket, isConnected, delivered>>
    /\ UNCHANGED serverVars

\* unsubscribeFromVideoUpdates()
UnsubscribeFromVideoUpdates ==
    /\ sockets' = removeListener(sockets)
    /\ listeners' = IF socket # 0 THEN NoCallback ELSE listeners
    /\ UNCHANGED <<socket, isConnected, pendingSubscriptions, closures,
                   delivered>>
    /\ UNCHANGED serverVars

NextClient ==
    \/ \E hasToken \in BOOLEAN : ConnectCall(hasToken)
    \/ \E s \in SocketIds : TransportConnect(s)
    \/ \E s \in SocketIds : TransportDisconnect(s)
    \/ \E s \in SocketIds : Deliver(s)
    \/ DisconnectCall
    \/ \E cb \in Callbacks : Subscribe(cb)
    \/ \E cb \in Callbacks : Unsubscribe(cb)
    \/ UnsubscribeFromVideoUpdates

SpecClient == Init /\ [][NextClient]_vars

\* The upload pipeline together with the socket connections of the clients
NextChannel ==
    \/ Upload
    \/ Orchestrator
    \/ Channel

SpecChannel == Init /\ [][NextChannel]_vars

\* Calls of analyzeSensitivity on each of the texts
InitAnalyze ==
    /\ video = NoVideo
    /\ fileOnDisk = FALSE
    /\ up_pc = "idle"
    /\ uploadRes = UploadResponse(0, "none")
    /\ pc = "idle"
    /\ loaded = FALSE
    /\ sens = Null
    /\ result = NoResult
    /\ err = <<>>
    /\ events = <<>>
    /\ sc_pc = "idle"
    /\ snap = [duration |-> NullNum, thumbnailPath |-> Null, status |-> Null,
               processingProgress |-> 0]
    /\ sc_runs = 0
    /\ resp = [req |-> NoRequest, dbOk |-> TRUE, res |-> Response(0, "none")]
    /\ overridden = FALSE
    /\ conns = [c \in Connections |-> NoConnection]
    /\ an \in [title : Texts, description : Descriptions, rnd : BOOLEAN,
                out : {Null}]
    /\ InitClient

NextAnalyze == Analyze

SpecAnalyze == InitAnalyze /\ [][NextAnalyze]_vars

\* Range requests of the owner on a stored file of each size. The document is
\* the one an upload by u1 leaves when the prober is unavailable: completed,
\* verdict pending, the two events of that path emitted.
OwnerToken ==
    [present |-> TRUE, sigOk |-> TRUE, expired |-> FALSE,
     payload |-> [userId |-> "u1", role |-> "editor", organization |-> "A"],
     account |-> "active"]

InitRange ==
    /\ \E n \in FileSizes :
          video = DegradedUpdate(
                    [NoVideo EXCEPT !.created = TRUE, !.title = <<"o","k">>,
                                    !.uploadedBy = "u1", !.organization = "A",
                                    !.filesize = n, !.status = "processing",
                                    !.sensitivityStatus = "pending",
                                    !.processingProgress = 10])
    /\ fileOnDisk = TRUE
    /\ up_pc = "done"
    /\ uploadRes = [UploadResponse(201, "Video uploaded successfully. Processing started.")
                      EXCEPT !.id = VideoId]
    /\ pc = "done"
    /\ loaded = TRUE
    /\ sens = Null
    /\ result = NoResult
    /\ err = <<>>
    /\ conns = [c \in Connections |-> NoConnection]
    /\ events = << Event(video, "processing", 10), Event(video, "completed", 100) >>
    /\ sc_pc = "idle"
    /\ snap = [duration |-> NullNum, thumbnailPath |-> Null, status |-> Null,
               processingProgress |-> 0]
    /\ sc_runs = 0
    /\ resp = [req |-> NoRequest, dbOk |-> TRUE, res |-> Response(0, "none")]
    /\ overridden = FALSE
    /\ an = NoCall
    /\ InitClient

NextRange ==
    \E range \in RangeInputs :
        StreamVideo([id |-> VideoId, token |-> OwnerToken, range |-> range], TRUE)

SpecRange == InitRange /\ [][NextRange]_vars

\* The operations on a processed record and the streaming endpoint: the
\* record of InitRange is deleted, moderated, published and streamed by callers
\* whose accounts are in each state
GateRequests ==
    [id : {VideoId}, token : Tokens \cup AccountTokens, range : {<<>>}]

NextGate ==
    \/ \E user \in Users : DeleteVideo(user)
    \/ \E status \in {"safe", "flagged"} : ToggleSensitivity(status)
    \/ \E isPublic \in BOOLEAN : UpdateVideo(isPublic)
    \/ LoseFile
    \/ \E req \in GateRequests, dbOk \in BOOLEAN : StreamVideo(req, dbOk)

SpecGate == InitRange /\ [][NextGate]_vars

\* ================================================================ claims
Served(res) == res.code \in {200, 206}

\* The state in which streamVideo has just answered: resp holds a request and
\* the answer computed from the document and the file as they are now. Every
\* step of StreamVideo ends in such a state.
JustAnswered ==
    /\ resp.res.code # 0
    /\ resp.res = StreamResponse(resp.req, video, fileOnDisk, resp.dbOk)

\* the request carries a verified credential and names the document
Authenticated(req) == jwtVerifies(req.token) /\ req.id = VideoId

Caller == resp.req.token.payload

\* C1: streamVideo never answers 200 or 206 for a document whose status is
\* not `completed` when the request is handled, whoever the caller is
\* (admin and owner included) and whatever the sensitivity verdict.
C1_NoBytesUnlessCompleted ==
    (JustAnswered /\ Served(resp.res)) =>
        video.created /\ video.status = "completed"

\* an admin asked for a flagged document that is still processing: 400
C1_Witness ==
    /\ JustAnswered
    /\ Authenticated(resp.req)
    /\ Caller.role = "admin"
    /\ video.status = "processing"
    /\ video.sensitivityStatus = "flagged"
    /\ resp.res.code = 400

\* C2 (as claimed): every request of a non-admin caller for a flagged
\* document is rejected as forbidden, and a valid admin is served a
\* completed flagged document.
C2_Original ==
    (JustAnswered /\ resp.dbOk /\ Authenticated(resp.req) /\ video.created
       /\ video.sensitivityStatus = "flagged") =>
      /\ (Caller.role # "admin" => resp.res.code = 403)
      /\ (Caller.role = "admin" /\ video.status = "completed"
            => Served(resp.res))

\* C2 (amended): a non-admin caller (the owner included) is never served a
\* flagged document; when the store read succeeds the answer is forbidden if
\* the document is completed, and forbidden or not-ready (400) if it is not.
\* A valid admin is answered 200 or 206 for a completed flagged document
\* when the store read succeeds and the file is on disk.
C2_FlaggedGate ==
    (JustAnswered /\ Authenticated(resp.req) /\ video.created
       /\ video.sensitivityStatus = "flagged") =>
      /\ (Caller.role # "admin" =>
            /\ ~Served(resp.res)
            /\ (resp.dbOk /\ video.status = "completed" => resp.res.code = 403)
            /\ (resp.dbOk /\ video.status # "completed"
                  => resp.res.code \in {400, 403}))
      /\ (Caller.role = "admin" /\ resp.dbOk /\ fileOnDisk
            /\ video.status = "completed" => Served(resp.res))

\* the owner asked for the own completed, flagged document: 403
C2_Witness ==
    /\ JustAnswered
    /\ Authenticated(resp.req)
    /\ Caller.userId = video.uploadedBy
    /\ video.status = "completed"
    /\ video.sensitivityStatus = "flagged"
    /\ resp.res.code = 403
    /\ resp.res.message = "Content flagged as sensitive. Admin access required."

\* the visibility rule of the claim: public AND same organization
OrgVisible(decoded, v) ==
    /\ v.isPublic
    /\ decoded.organization # Null
    /\ decoded.organization = v.organization

\* C3: a caller who is neither admin nor owner is served only when the
\* document is public AND of the caller's organization; in every other case
\* the request is rejected as forbidden.
C3_PublicAndSameOrg ==
    (JustAnswered /\ resp.dbOk /\ Authenticated(resp.req) /\ video.created
       /\ Caller.role # "admin" /\ Caller.userId # video.uploadedBy) =>
      /\ (Served(resp.res) => OrgVisible(Caller, video))
      /\ (~OrgVisible(Caller, video) => resp.res.code = 403)

\* the answer of the gate of the claim: the first failing check in the order
\* credential, document, ownership/visibility, status, verdict (0: all pass)
GateOfClaim(req, v) ==
    IF ~req.token.present \/ ~jwtVerifies(req.token) THEN 401
    ELSE IF req.id # VideoId \/ ~v.created THEN 404
    ELSE IF /\ req.token.payload.role # "admin"
            /\ req.token.payload.userId # v.uploadedBy
            /\ ~OrgVisible(req.token.payload, v) THEN 403
    ELSE IF v.status # "completed" THEN 400
    ELSE IF v.sensitivityStatus = "flagged" /\ req.token.payload.role # "admin"
         THEN 403
    ELSE 0

\* C4: the gate answers with the first failing check in the order credential,
\* document exists, ownership/visibility (skipped for admin), status
\* completed, flagged verdict; in particular a non-owner non-admin request
\* for a private document that is still processing is forbidden, not
\* not-ready.
C4_FirstFailingCheck ==
    (JustAnswered /\ (resp.dbOk \/ ~jwtVerifies(resp.req.token))) =>
      IF GateOfClaim(resp.req, video) = 0
      THEN resp.res.code \in {200, 206, 404}
      ELSE resp.res.code = GateOfClaim(resp.req, video)

\* ---------------------------------------------------- orchestrator claims
Last(q) == q[Len(q)]

Terminal(e) == e.status \in {"completed", "failed"}

OrchStopped == pc \in {"done", "crashed"}

\* C5: the progress values of the events published while the document is
\* processing are non-decreasing; once the orchestrator has stopped, the
\* sequence ends with a completed event of progress 100 or with a single
\* failed event, and nothing is published after such an event.
C5_EventSequence ==
    /\ \A i, j \in 1..Len(events) :
         (i < j /\ events[i].status = "processing"
                /\ events[j].status = "processing")
           => events[i].progress <= events[j].progress
    /\ \A i \in 1..Len(events) : Terminal(events[i]) => i = Len(events)
    /\ OrchStopped =>
         /\ events # <<>>
         /\ \/ Last(events).status = "completed" /\ Last(events).progress = 100
            \/ Last(events).status = "failed"

\* the fields the pipeline derives
Derived(v) ==
    <<v.status, v.processingProgress, v.duration, v.thumbnailPath,
      v.processingError>>

\* C6: once the status is failed or completed, no step of the orchestrator
\* or of the reprocess-videos script changes status, progress or derived
\* fields again.
C6_TerminalStable ==
    [][((Orchestrator \/ Script) /\ video.status \in {"failed", "completed"})
          => Derived(video') = Derived(video)]_vars

\* C7: no exception escapes the orchestrator, and when it has stopped the
\* document is completed or failed.
C7_ReachesTerminal ==
    /\ pc # "crashed"
    /\ OrchStopped => video.status \in {"completed", "failed"}

\* C8: a prober call that never returns does not leave the document in
\* processing forever: it eventually becomes failed.
C8_HungProbeTimesOut == (pc = "hung") ~> (video.status = "failed")

IsProbeError(e) ==
    \E t \in ToolErrors : e = processVideoError(getVideoMetadataError(t))

\* C9: when the probe step throws, the catch block stores status failed,
\* progress 0 and the error message, publishes exactly one failed event to
\* the owner, and none of the later steps is performed (no progress 80, no
\* completed event, the orchestrator never reaches the later positions).
C9_ProbeFailure ==
    /\ [](IsProbeError(err) =>
            /\ pc \in {"catch", "done", "crashed"}
            /\ \A i \in 1..Len(events) :
                 events[i].progress \notin {80, 100}
                   /\ events[i].status # "completed"
            /\ Cardinality({i \in 1..Len(events) : events[i].status = "failed"})
                 = IF pc = "done" THEN 1 ELSE 0
            /\ pc = "done" =>
                 /\ Last(events).status = "failed"
                 /\ Last(events).to = video.uploadedBy
                 /\ Last(events).error = err)
    /\ [][(pc = "catch" /\ pc' = "done" /\ IsProbeError(err)) =>
            /\ video'.status = "failed"
            /\ video'.processingProgress = 0
            /\ video'.processingError = err]_vars

\* the probe threw and the catch block has run
C9_Witness ==
    /\ pc = "done"
    /\ IsProbeError(err)
    /\ video.status = "failed"
    /\ Last(events).status = "failed"

IsThumbnailError(e) == \E i \in 1..Len(e) : e[i] = "Failed to generate thumbnail"

\* C10: a thumbnail failure is absorbed: the orchestrator goes on to the
\* progress-80 step, the error it catches or stores is never a thumbnail
\* error, and the final update stores completed, progress 100 and a null
\* thumbnail path.
C10_ThumbnailNonFatal ==
    /\ [](~IsThumbnailError(err) /\ ~IsThumbnailError(video.processingError))
    /\ [][(pc = "thumb" /\ pc' # pc) => pc' \in {"w80", "hung"}]_vars
    /\ [][(pc = "wfinal" /\ pc' = "done" /\ result.thumbnailPath = Null) =>
            /\ video'.status = "completed"
            /\ video'.processingProgress = 100
            /\ video'.thumbnailPath = Null]_vars

\* probing succeeded, the thumbnail failed and the orchestrator completed
C10_Witness ==
    /\ pc = "done"
    /\ events # <<>>
    /\ Last(events).status = "completed"
    /\ Last(events).progress = 100
    /\ Last(events).thumbnailPath = Null
    /\ Len(events) = 4
    /\ video.status = "completed"
    /\ video.thumbnailPath = Null

\* C11: when checkFFmpegAvailable reports the prober unavailable, the
\* orchestrator leaves the prober-unavailable position either by storing
\* completed / 100 with null duration, resolution and thumbnail, the owner
\* having been sent exactly the events 10 (processing) and 100 (completed),
\* or because its store update rejected; the missing prober never makes the
\* document failed.
C11_DegradedCompletes ==
    /\ [](pc = "w_degraded" => video.status = "processing")
    /\ [][(pc = "w_degraded" /\ pc' # pc) =>
            \/ /\ pc' = "done"
               /\ video'.status = "completed"
               /\ video'.processingProgress = 100
               /\ video'.duration = NullNum
               /\ video'.resolution = NoVideo.resolution
               /\ video'.thumbnailPath = Null
               /\ Len(events') = 2
               /\ \A i \in 1..2 : events'[i].to = video.uploadedBy
               /\ events'[1].status = "processing" /\ events'[1].progress = 10
               /\ events'[2].status = "completed" /\ events'[2].progress = 100
            \/ /\ pc' = "catch"
               /\ err' = DbError
               /\ video' = video]_vars

\* the prober was unavailable and the orchestrator has completed the document
C11_Witness ==
    /\ pc = "done"
    /\ Len(events) = 2
    /\ Last(events).status = "completed"
    /\ video.status = "completed"
    /\ video.processingProgress = 100
    /\ video.duration = NullNum
    /\ video.thumbnailPath = Null

HasDenyToken(s) == \E k \in UNSAFE_KEYWORDS : includes(toLowerCase(s), k)

\* C12: for a document uploaded with a deny-list token in its title or
\* description and never changed by the moderation override, every request
\* of a non-admin caller handled once the document is completed is rejected
\* as forbidden.
C12_DenyTokenForbidden ==
    (JustAnswered /\ resp.dbOk /\ Authenticated(resp.req) /\ video.created
       /\ Caller.role # "admin"
       /\ (HasDenyToken(video.title) \/ HasDenyToken(video.description))
       /\ ~overridden
       /\ video.status = "completed") =>
      resp.res.code = 403

\* C13: once the verdict of a document is no longer pending, the only
\* operation that changes it is the moderation override; the pipeline never
\* replaces a verdict that has been set.
C13_VerdictSetOnce ==
    [][(video.created /\ video.sensitivityStatus # "pending"
          /\ video'.sensitivityStatus # video.sensitivityStatus) =>
         \E status \in {"safe", "flagged"} : ToggleSensitivity(status)]_vars

\* C14: the upload handler acknowledges an accepted upload, with the id of
\* the document, in the step that starts the orchestrator and without
\* waiting for it: whenever the orchestrator has been started the
\* acknowledgment has been sent, whatever becomes of the orchestrator; and
\* the orchestrator, once started, goes on to a terminal state by itself.
C14_AckWithoutWaiting ==
    /\ [](pc # "idle" =>
            /\ up_pc = "done"
            /\ uploadRes.code = 201
            /\ uploadRes.id = VideoId)
    /\ [][(uploadRes.code # 201 /\ uploadRes'.code = 201) =>
            /\ pc' = "find"
            /\ video'.status = "processing"]_vars
    /\ ((pc = "find") ~>
           (pc = "done" /\ video.status \in {"completed", "failed"}))

RejectionMessages ==
    {"Invalid file type", "Invalid file extension", "File too large",
     "Video title is required.", "Validation failed: Unsupported video format"}

C16_Original ==
    an.out # Null =>
        /\ an.out \in {"safe", "flagged"}
        /\ (HasDenyToken(an.title \o an.description) => an.out = "flagged")

\* C16 (amended): analyzeSensitivity returns flagged whenever the lower-cased
\* text made of the title, one space and the description contains a
\* deny-list token (that is, the title or the description contains it),
\* whatever the random draw; it returns only safe or flagged. A token that
\* only appears across the end of the title and the start of the
\* description is not a match.
C16_DenyListFlags ==
    an.out # Null =>
        /\ an.out \in {"safe", "flagged"}
        /\ (HasDenyToken(an.title) \/ HasDenyToken(an.description)
              => an.out = "flagged")
        /\ (HasDenyToken(an.title \o <<" ">> \o an.description)
              <=> (HasDenyToken(an.title) \/ HasDenyToken(an.description)))

\* a text with the token in the description only, and a draw that would say
\* safe, was analysed
C16_Witness ==
    /\ an.out = "flagged"
    /\ ~an.rnd
    /\ ~HasDenyToken(an.title)
    /\ HasDenyToken(an.description)

\* C20: a connection is open only after a handshake whose token verified,
\* and carries the user id of that token; it is in no room other than its
\* own socket room and the room of that user id, whatever `join` messages
\* it sent; and each videoStatusUpdate event is delivered exactly to the
\* open connections whose token resolved to the uploader of the document.
C20_OwnerOnlyDelivery ==
    /\ [](\A c \in Connections :
            /\ conns[c].open =>
                  /\ \E t \in Tokens : /\ t.present /\ t.sigOk /\ ~t.expired
                                        /\ t.payload.userId = conns[c].userId
                  /\ conns[c].rooms \subseteq {c, conns[c].userId}
            /\ ~conns[c].open => conns[c].rooms = {})
    /\ [][\A c \in Connections, t \in HandshakeTokens :
            (Handshake(c, t) /\ ~(t.present /\ t.sigOk /\ ~t.expired))
               => ~conns'[c].open]_vars
    /\ [][Len(events') > Len(events) =>
            /\ Last(events').to = video.uploadedBy
            /\ Last(events').rcpt =
                 {c \in Connections :
                    conns[c].open /\ conns[c].userId = video.uploadedBy}]_vars

\* an event was delivered to the uploader's connection and not to the open
\* connection of another user
C20_Witness ==
    /\ events # <<>>
    /\ Last(events).rcpt = {"s1"}
    /\ conns["s2"].open
    /\ conns["s2"].userId # video.uploadedBy
    /\ conns["s1"].userId = video.uploadedBy

\* ----------------------------------------------------- SocketService claims
Range(q) == {q[i] : i \in 1..Len(q)}

\* C17: a subscription made while the socket is not connected is queued;
\* when a socket reports connect the queue is flushed: the queue is empty
\* and each queued callback is registered exactly once on the socket that
\* reported connect, so that it is called once for every videoStatusUpdate
\* that socket delivers from then on.
C17_PendingFlushedOnConnect ==
    /\ [][\A cb \in Callbacks :
            (Subscribe(cb) /\ ~socketConnected) =>
               /\ pendingSubscriptions' = Append(pendingSubscriptions, cb)
               /\ sockets' = sockets]_vars
    /\ [][\A s \in SocketIds :
            TransportConnect(s) =>
               /\ pendingSubscriptions' = <<>>
               /\ \A cb \in Range(pendingSubscriptions) :
                    Count(cb, sockets'[s].handlers) = 1]_vars
    /\ [][\A s \in SocketIds :
            Deliver(s) =>
               \A cb \in Callbacks :
                  delivered'.calls[cb] = Count(cb, sockets[s].handlers)]_vars

\* cb has no entry in the pending queue and no handler on any socket
Inactive(cb, q, ss) ==
    /\ cb \notin Range(q)
    /\ \A s \in SocketIds : cb \notin Range(ss[s].handlers)

\* C18: when the unsubscribe function of cb is called while cb is still in
\* the pending queue, the entries of cb leave the queue and the entries of
\* the other callbacks stay, in order; from then on cb is neither queued nor
\* registered, and no delivery calls it, also after a socket connects and
\* the queue is flushed.
C18_UnsubscribePurgesPending ==
    /\ [][\A cb \in Callbacks :
            (Unsubscribe(cb) /\ cb \in Range(pendingSubscriptions)) =>
               /\ cb \notin Range(pendingSubscriptions')
               /\ \A other \in Callbacks \ {cb} :
                    Count(other, pendingSubscriptions')
                      = Count(other, pendingSubscriptions)
               /\ Inactive(cb, pendingSubscriptions', sockets')]_vars
    /\ [][\A cb \in Callbacks :
            (closures[cb] = "called"
               /\ Inactive(cb, pendingSubscriptions, sockets)) =>
               /\ Inactive(cb, pendingSubscriptions', sockets')
               /\ (delivered' # delivered => delivered'.calls[cb] = 0)]_vars

\* cb1 was unsubscribed while pending; later the socket connected, the queue
\* was flushed and an update was delivered to cb2 only
C18_Witness ==
    /\ closures["cb1"] = "called"
    /\ Inactive("cb1", pendingSubscriptions, sockets)
    /\ closures["cb2"] = "live"
    /\ socketConnected
    /\ delivered.socket = socket
    /\ delivered.calls["cb2"] = 1
    /\ delivered.calls["cb1"] = 0
    /\ listeners = "cb2"

\* C19: calling an unsubscribe function again after it has been called,
\* whatever happened to the transport in between, changes neither the
\* registered handlers nor the listener entry nor the pending queue, so a
\* listener subscribed in between keeps receiving the updates.
C19_SecondUnsubscribeNoOp ==
    [][\A cb \in Callbacks :
         (Unsubscribe(cb) /\ closures[cb] = "called") =>
            /\ sockets' = sockets
            /\ listeners' = listeners
            /\ pendingSubscriptions' = pendingSubscriptions]_vars

\* the decimal numeral of a natural number
RECURSIVE Dec(_)
Dec(n) ==
    LET d == <<"0","1","2","3","4","5","6","7","8","9">>
    IN  IF n < 10 THEN <<d[n + 1]>> ELSE Dec(n \div 10) \o <<d[(n % 10) + 1]>>

\* the byte positions written in the Range headers
RangeNumbers == {0, 1, 3, 4, 9, 99, 500, 900, 999, 1000}

\* the header bytes=s-e and the header bytes=s-
ClosedRange(s, e) == BytesEq \o Dec(s) \o <<"-">> \o Dec(e)
OpenRange(s) == BytesEq \o Dec(s) \o <<"-">>

\* the 206 answer with Content-Range bytes s-e/n, Accept-Ranges, and e-s+1
\* bytes from offset s
Partial(res, s, e, n) ==
    /\ res.code = 206
    /\ res.start = Num(s) /\ res.end = Num(e) /\ res.total = n
    /\ res.acceptRanges
    /\ res.length = Num(e - s + 1)
    /\ res.offset = Num(s) /\ res.body = e - s + 1

\* C21: an authorized request on a stored file of n bytes is answered 200
\* with Content-Length n when it has no Range header; a header bytes=s-e with
\* 0 <= s <= e <= n-1 is answered 206 with Content-Range bytes s-e/n,
\* Accept-Ranges bytes and exactly e-s+1 bytes from offset s; a header
\* bytes=s- is answered the same way with e = n-1.
C21_RangeServed ==
    (JustAnswered /\ Served(resp.res)) =>
        LET n == video.filesize
            r == resp.req.range
            res == resp.res
        IN  /\ r = <<>> =>
                  res.code = 200 /\ res.length = Num(n) /\ res.body = n
            /\ \A s \in RangeNumbers, e \in RangeNumbers :
                  (s <= e /\ e <= n - 1 /\ r = ClosedRange(s, e)) =>
                      Partial(res, s, e, n)
            /\ \A s \in RangeNumbers :
                  (s <= n - 1 /\ r = OpenRange(s)) => Partial(res, s, n - 1, n)

\* the tail bytes=900- of a file of 1000 bytes has been served, and so has
\* a whole file
C21_Witness ==
    /\ JustAnswered
    /\ video.filesize = 1000
    /\ resp.req.range = OpenRange(900)
    /\ resp.res.code = 206 /\ resp.res.body = 100

\* Range headers that name several ranges, or whose start is missing (the
\* suffix form bytes=-n) or is no number
Malformed(r) ==
    \/ \E k \in 1..Len(r) : r[k] = ","
    \/ \E a \in {<<>>, <<"x">>}, b \in Numerals : r = BytesEq \o a \o <<"-">> \o b

\* C22: a Range header that names several ranges or cannot be parsed (a
\* start that is no number, the suffix form) is treated as absent: the whole
\* file is served with status 200, never 206 and never an error.
C22_MalformedRangeIgnored ==
    (JustAnswered /\ Served(resp.res) /\ Malformed(resp.req.range)) =>
        /\ resp.res.code = 200
        /\ resp.res.length = Num(video.filesize)
        /\ resp.res.body = video.filesize

\* C23: every 206 answer computed from numbers has 0 <= start <= end <= n-1
\* in its Content-Range and Content-Length = end - start + 1 = the bytes
\* sent, also when the requested end or start is at or beyond the size n.
C23_PartialWithinBounds ==
    (JustAnswered /\ resp.res.code = 206
       /\ ~resp.res.start.nan /\ ~resp.res.end.nan) =>
        /\ 0 <= resp.res.start.v
        /\ resp.res.start.v <= resp.res.end.v
        /\ resp.res.end.v <= video.filesize - 1
        /\ resp.res.length = Num(resp.res.end.v - resp.res.start.v + 1)
        /\ resp.res.body = resp.res.end.v - resp.res.start.v + 1

\* C24: whenever the orchestrator has brought the record to a terminal state,
\* completed (also when the prober is unavailable) or failed after a probe
\* error, the stored verdict is safe or flagged: it is not pending.
C24_TerminalHasVerdict ==
    (/\ pc = "done"
     /\ \/ video.status = "completed"
        \/ video.status = "failed" /\ IsProbeError(err)) =>
        video.sensitivityStatus \in {"safe", "flagged"}

\* positions of the orchestrator at which getVideoMetadata has not returned
BeforeProbeReturned == {"find", "check", "w30", "wsens", "probe"}

\* C25: with the prober available the steps run in the order probe, classify,
\* thumbnail, finalize: as long as the probe has not returned the verdict is
\* neither computed nor stored by the orchestrator, and a thumbnail exists
\* only once the verdict was computed.
C25_StepOrder ==
    /\ (pc \in BeforeProbeReturned /\ ~overridden) =>
           sens = Null /\ video.sensitivityStatus = "pending"
    /\ result.thumbnailPath # Null => sens # Null

\* C26: after a completion with the prober available the stored duration and
\* thumbnail are those processVideo returned, the final event carries them,
\* and the stored resolution, codec and bitrate are the probed values.
C26_ProbedValuesStored ==
    (pc = "done" /\ video.status = "completed" /\ result.duration # NullNum) =>
        /\ video.duration = result.duration
        /\ video.thumbnailPath = result.thumbnailPath
        /\ Last(events).duration = result.duration
        /\ Last(events).thumbnailPath = result.thumbnailPath
        /\ video.resolution.width = result.metadata.width
        /\ video.resolution.height = result.metadata.height
        /\ video.codec = result.metadata.codec
        /\ video.bitrate = result.metadata.bitrate

\* C27: the first call of the unsubscribe function of a callback, on a
\* connected socket, removes the handler of that callback and no other: the
\* callback is no longer called by the socket, and every other callback keeps
\* the handlers it had.
C27_UnsubscribeOwnListenerOnly ==
    [][\A cb \in Callbacks :
         (Unsubscribe(cb) /\ closures[cb] = "live" /\ socketConnected) =>
            /\ Count(cb, sockets'[socket].handlers) = 0
            /\ \A other \in Callbacks \ {cb} :
                  Count(other, sockets'[socket].handlers)
                    = Count(other, sockets[socket].handlers)]_vars

\* C28: a record that deleteVideo has soft-deleted is never served (200 or
\* 206) by streamVideo to a caller who is not an admin.
C28_DeletedNotServed ==
    (JustAnswered /\ video.isDeleted /\ Caller.role # "admin") =>
        ~Served(resp.res)

\* C29: streamVideo lets a credential past its authentication step only if
\* protect would call next() for it: the valid, unexpired token of a user who
\* no longer exists, is deactivated or changed the password after the issue
\* is answered 401.
C29_GateAgreesWithProtect ==
    (JustAnswered /\ resp.dbOk /\ resp.res.code # 401) =>
        protect(resp.req.token, TRUE) = "next"

\* C30: every content type videoFileFilter accepts is a value of the
\* schema's mimeType enum, so an upload the filter accepted, with a non-blank
\* title and an allowed size, is never answered with the schema's validation
\* error after its file was written.
C30_AcceptedFileIsStored ==
    ~(/\ up_pc = "done"
      /\ uploadRes.message = "Validation failed: Unsupported video format")

====
